---- MODULE Spec2Model ----
(***************************************************************************)
(* Model of app.py of the Strategic Forecast Question Builder: the text    *)
(* utilities (model_name, strip_urls, normalize, parse_questions) and the  *)
(* three-stage run handler (research -> generate -> optional refresh).     *)
(*                                                                         *)
(* A Python str is modelled as a sequence of one-character strings, so     *)
(* that every regular expression and str method of the source is computed  *)
(* character by character.                                                 *)
(***************************************************************************)
EXTENDS Integers, Sequences, FiniteSets, TLC

VARIABLES
    \* ---- text utilities driven on their own (pure-function harness) ----
    upc,         \* position of the harness: "off", "in", "once", "twice", "out"
    src_in,      \* the pieces the input text is assembled from
    text_in,     \* input text of the function under study
    flag_in,     \* boolean input (model_name's online)
    text_out,    \* result of the first application
    text_out2,   \* result of the second application (normalize twice)
    recs_out,    \* result of parse_questions
    exc,         \* name of the exception the call raised, "" when none
    \* ---- the run handler (app.py 331-404) ----
    pc,          \* position of the script run
    runs,        \* number of clicks on the run button so far
    brief, constraints, base_model, online, run_refresh,   \* widget values
    full_brief,  \* app.py 336-338
    research, draft, final_text,       \* the three stage outputs
    research_box, draft_box, final_box,\* what the three placeholders show
    calls,       \* completion calls issued in this run, in order
    errors,      \* st.error messages rendered in this run
    downloads    \* download buttons rendered in this run

uvars == <<upc, src_in, text_in, flag_in, text_out, text_out2, recs_out, exc>>
pvars == <<pc, runs, brief, constraints, base_model, online, run_refresh,
           full_brief, research, draft, final_text, research_box, draft_box,
           final_box, calls, errors, downloads>>
vars == <<uvars, pvars>>

(***************************************************************************)
(* Bounds of the harnesses.                                                *)
(***************************************************************************)
MaxNormLen == 6
MaxNameChunks == 3
MaxLines == 3
MaxBlocks == 2
MaxRuns == 2

(***************************************************************************)
(* Characters and elementary str operations.                               *)
(***************************************************************************)
\* Whitespace of the modelled alphabet (Python \s, str.strip, str.split).
Space == {" ", "\t", "\n"}
Digit == {"0", "1", "2", "3", "4", "5", "6", "7", "8", "9"}
Letter == {"a", "b", "c", "d", "e", "f", "g", "h", "i", "j", "k", "l", "m",
           "n", "o", "p", "q", "r", "s", "t", "u", "v", "w", "x", "y", "z",
           "A", "B", "C", "D", "E", "F", "G", "H", "I", "J", "K", "L", "M",
           "N", "O", "P", "Q", "R", "S", "T", "U", "V", "W", "X", "Y", "Z"}
\* \w of the re module
WordChar == Letter \cup Digit \cup {"_"}

Drop(s, n) == SubSeq(s, n + 1, Len(s))
Take(s, n) == SubSeq(s, 1, n)
StartsWith(s, p) == Len(s) >= Len(p) /\ Take(s, Len(p)) = p
EndsWith(s, p) == Len(s) >= Len(p) /\ Drop(s, Len(s) - Len(p)) = p

RECURSIVE Flatten(_)
Flatten(ss) == IF ss = <<>> THEN <<>> ELSE Head(ss) \o Flatten(Tail(ss))

\* number of leading characters of s that belong to set cs
RECURSIVE RunLen(_, _)
RunLen(s, cs) ==
    IF s # <<>> /\ Head(s) \in cs THEN 1 + RunLen(Tail(s), cs) ELSE 0

\* number of leading characters of s that do not belong to set cs
RECURSIVE RunLenNot(_, _)
RunLenNot(s, cs) ==
    IF s # <<>> /\ Head(s) \notin cs THEN 1 + RunLenNot(Tail(s), cs) ELSE 0

lstrip(s) == Drop(s, RunLen(s, Space))

RECURSIVE rstrip(_)
rstrip(s) ==
    IF s # <<>> /\ s[Len(s)] \in Space THEN rstrip(Take(s, Len(s) - 1)) ELSE s

strip(s) == rstrip(lstrip(s))

\* str.splitlines(): split at line breaks, no empty last element
RECURSIVE splitlines(_)
splitlines(s) ==
    IF s = <<>> THEN <<>>
    ELSE LET n == RunLenNot(s, {"\n"})
         IN  <<Take(s, n)>> \o splitlines(Drop(s, n + 1))

\* "\n".join(lines)
RECURSIVE joinlines(_)
joinlines(ls) ==
    IF ls = <<>> THEN <<>>
    ELSE IF Len(ls) = 1 THEN ls[1]
    ELSE ls[1] \o <<"\n">> \o joinlines(Tail(ls))

\* str.replace(pat, ""): leftmost non-overlapping occurrences removed
RECURSIVE RemoveAll(_, _)
RemoveAll(s, pat) ==
    IF s = <<>> THEN <<>>
    ELSE IF StartsWith(s, pat) THEN RemoveAll(Drop(s, Len(pat)), pat)
    ELSE <<Head(s)>> \o RemoveAll(Tail(s), pat)

(***************************************************************************)
(* model_name                                                              *)
(***************************************************************************)
OnlineSuffix == <<":", "o", "n", "l", "i", "n", "e">>

model_name(base, on) ==
    LET b == RemoveAll(strip(base), OnlineSuffix)
    IN  IF on THEN b \o OnlineSuffix ELSE b

(***************************************************************************)
(* strip_urls and normalize                                                *)
(***************************************************************************)
HttpPrefix == <<"h", "t", "t", "p", ":", "/", "/">>
HttpsPrefix == <<"h", "t", "t", "p", "s", ":", "/", "/">>
WwwPrefix == <<"w", "w", "w", ".">>

\* length of the match of  prefix \S+  at the start of s, 0 when none
PrefixedTokenLen(s, prefix) ==
    IF StartsWith(s, prefix) /\ RunLenNot(Drop(s, Len(prefix)), Space) >= 1
    THEN Len(prefix) + RunLenNot(Drop(s, Len(prefix)), Space)
    ELSE 0

\* length of the match of  https?://\S+  at the start of s, 0 when none
HttpMatchLen(s) ==
    IF PrefixedTokenLen(s, HttpsPrefix) > 0 THEN PrefixedTokenLen(s, HttpsPrefix)
    ELSE PrefixedTokenLen(s, HttpPrefix)

\* re.sub(r"https?://\S+", "", s)
RECURSIVE SubHttp(_)
SubHttp(s) ==
    IF s = <<>> THEN <<>>
    ELSE IF HttpMatchLen(s) > 0 THEN SubHttp(Drop(s, HttpMatchLen(s)))
    ELSE <<Head(s)>> \o SubHttp(Tail(s))

\* re.sub(r"www\.\S+", "", s)
RECURSIVE SubWww(_)
SubWww(s) ==
    IF s = <<>> THEN <<>>
    ELSE IF PrefixedTokenLen(s, WwwPrefix) > 0
         THEN SubWww(Drop(s, PrefixedTokenLen(s, WwwPrefix)))
    ELSE <<Head(s)>> \o SubWww(Tail(s))

strip_urls(s) == SubWww(SubHttp(s))

\* re.sub(r"[ \t]+", " ", s)
RECURSIVE CollapseBlanks(_)
CollapseBlanks(s) ==
    IF s = <<>> THEN <<>>
    ELSE IF Head(s) \in {" ", "\t"}
         THEN <<" ">> \o CollapseBlanks(Drop(s, RunLen(s, {" ", "\t"})))
    ELSE <<Head(s)>> \o CollapseBlanks(Tail(s))

\* re.sub(r"\n{3,}", "\n\n", s)
RECURSIVE CollapseNewlines(_)
CollapseNewlines(s) ==
    IF s = <<>> THEN <<>>
    ELSE IF RunLen(s, {"\n"}) >= 3
         THEN <<"\n", "\n">> \o CollapseNewlines(Drop(s, RunLen(s, {"\n"})))
    ELSE IF Head(s) = "\n"
         THEN Take(s, RunLen(s, {"\n"})) \o CollapseNewlines(Drop(s, RunLen(s, {"\n"})))
    ELSE <<Head(s)>> \o CollapseNewlines(Tail(s))

RstripLines(ls) == [i \in 1..Len(ls) |-> rstrip(ls[i])]

normalize(s) ==
    LET t1 == strip_urls(s)
        t2 == CollapseBlanks(t1)
        t3 == CollapseNewlines(t2)
        lines == RstripLines(splitlines(t3))
    IN  strip(joinlines(lines)) \o <<"\n">>

(***************************************************************************)
(* parse_questions                                                         *)
(***************************************************************************)
\* the alternation of the label pattern, each with the field map_key gives it
\* (the faulty variant crosses the keys of two labels)
LabelMapCrossed == <<
    [label |-> <<"A", "x", "i", "s">>,
     key |-> "axis"],
    [label |-> <<"T", "i", "t", "l", "e">>,
     key |-> "title"],
    [label |-> <<"H", "o", "r", "i", "z", "o", "n">>,
     key |-> "horizon"],
    [label |-> <<"Q", "u", "e", "s", "t", "i", "o", "n">>,
     key |-> "question"],
    [label |-> <<"W", "h", "y", " ", "i", "t", " ", "m", "a", "t", "t", "e", "r", "s">>,
     key |-> "decision_link"],
    [label |-> <<"D", "e", "c", "i", "s", "i", "o", "n", " ", "l", "i", "n", "k">>,
     key |-> "why_it_matters"],
    [label |-> <<"S", "i", "g", "n", "a", "l", " ", "h", "i", "n", "t", "s">>,
     key |-> "signals"]
>>
LabelMap == <<
    [label |-> <<"A", "x", "i", "s">>,
     key |-> "axis"],
    [label |-> <<"T", "i", "t", "l", "e">>,
     key |-> "title"],
    [label |-> <<"H", "o", "r", "i", "z", "o", "n">>,
     key |-> "horizon"],
    [label |-> <<"Q", "u", "e", "s", "t", "i", "o", "n">>,
     key |-> "question"],
    [label |-> <<"W", "h", "y", " ", "i", "t", " ", "m", "a", "t", "t", "e", "r", "s">>,
     key |-> "why_it_matters"],
    [label |-> <<"D", "e", "c", "i", "s", "i", "o", "n", " ", "l", "i", "n", "k">>,
     key |-> "decision_link"],
    [label |-> <<"S", "i", "g", "n", "a", "l", " ", "h", "i", "n", "t", "s">>,
     key |-> "signals"]
>>

EmptyItem ==
    [id |-> <<>>, axis |-> <<>>, title |-> <<>>, horizon |-> <<>>,
     question |-> <<>>, why_it_matters |-> <<>>, decision_link |-> <<>>,
     signals |-> <<>>]

\* Q\d+\b matches at the start of s (the lookahead of the split pattern)
QNumBoundaryAt(s) ==
    /\ s # <<>> /\ Head(s) = "Q"
    /\ RunLen(Tail(s), Digit) >= 1
    /\ LET rest == Drop(s, 1 + RunLen(Tail(s), Digit))
       IN  rest = <<>> \/ Head(rest) \notin WordChar

\* re.match(r"^Q\d+", ln)
QNumAt(ln) == ln # <<>> /\ Head(ln) = "Q" /\ RunLen(Tail(ln), Digit) >= 1

\* the places of s where re.split(r"\n(?=Q\d+\b)", s) cuts
SplitPoints(s) ==
    {i \in 1..Len(s) : s[i] = "\n" /\ QNumBoundaryAt(Drop(s, i))}

\* the pieces of s from place start on, cut at the split points
RECURSIVE SplitBlocksFrom(_, _)
SplitBlocksFrom(s, start) ==
    LET later == {i \in SplitPoints(s) : i >= start}
    IN  IF later = {} THEN <<SubSeq(s, start, Len(s))>>
        ELSE LET i == CHOOSE k \in later : \A j \in later : k <= j
             IN  <<SubSeq(s, start, i - 1)>> \o SplitBlocksFrom(s, i + 1)

SplitBlocks(raw) == SplitBlocksFrom(strip(raw), 1)

\* ln.strip().split()[0] for a line that starts with Q
FirstToken(ln) == Take(strip(ln), RunLenNot(strip(ln), Space))

\* the entries of LabelMap whose "Label:" starts the stripped line
MatchingLabels(ln) ==
    {i \in 1..Len(LabelMap) : StartsWith(strip(ln), LabelMap[i].label \o <<":">>)}

\* one iteration of the loop over the lines of a block (app.py 63-82)
ParseLine(item, ln) ==
    IF QNumAt(ln) THEN [item EXCEPT !.id = FirstToken(ln)]
    ELSE IF MatchingLabels(ln) # {}
         THEN LET i == CHOOSE j \in MatchingLabels(ln) : TRUE
              IN  [item EXCEPT ![LabelMap[i].key] =
                       strip(Drop(strip(ln), Len(LabelMap[i].label) + 1))]
    ELSE item

RECURSIVE ParseLines(_, _)
ParseLines(item, lns) ==
    IF lns = <<>> THEN item
    ELSE ParseLines(ParseLine(item, Head(lns)), Tail(lns))

ParseBlock(b) == ParseLines(EmptyItem, splitlines(b))

\* app.py 51: blocks that do not start with Q are skipped
BlockRetained(b) == StartsWith(strip(b), <<"Q">>)

\* app.py 83: the condition under which the item is appended (the faulty variant
\* forgets the question)
ItemEmittedIdOnly(item) == item.id # <<>>
ItemEmitted(item) == item.id # <<>> /\ item.question # <<>>

\* faulty variant: drops a block whose id was already emitted
RECURSIVE ParseBlocksSeen(_, _)
ParseBlocksSeen(bs, seen) ==
    IF bs = <<>> THEN <<>>
    ELSE LET b == Head(bs)
             item == ParseBlock(b)
             keep == BlockRetained(b) /\ ItemEmitted(item) /\ item.id \notin seen
         IN  (IF keep THEN <<item>> ELSE <<>>)
             \o ParseBlocksSeen(Tail(bs), IF keep THEN seen \cup {item.id} ELSE seen)
ParseBlocksDedup(bs) == ParseBlocksSeen(bs, {})

\* app.py 50-84: the loop over the blocks
RECURSIVE ParseBlocks(_)
ParseBlocks(bs) ==
    IF bs = <<>> THEN <<>>
    ELSE LET b == Head(bs)
             item == ParseBlock(b)
         IN  (IF BlockRetained(b) /\ ItemEmitted(item) THEN <<item>> ELSE <<>>)
             \o ParseBlocks(Tail(bs))

parse_questions(raw) == ParseBlocks(SplitBlocks(raw))

(***************************************************************************)
(* Harnesses that drive the pure functions on bounded inputs.  The run     *)
(* handler's variables stay at their initial values in these.              *)
(***************************************************************************)
Unset == <<>>

PipelineIdle ==
    /\ pc = "idle" /\ runs = 0
    /\ brief = <<>> /\ constraints = <<>> /\ base_model = <<>>
    /\ online = [research |-> FALSE, generate |-> FALSE, refresh |-> FALSE]
    /\ run_refresh = FALSE
    /\ full_brief = Unset
    /\ research = Unset /\ draft = Unset /\ final_text = Unset
    /\ research_box = Unset /\ draft_box = Unset /\ final_box = Unset
    /\ calls = <<>> /\ errors = <<>> /\ downloads = <<>>

HarnessIdle ==
    /\ upc = "off" /\ src_in = <<>> /\ text_in = <<>> /\ flag_in = FALSE
    /\ text_out = <<>> /\ text_out2 = <<>> /\ recs_out = <<>> /\ exc = ""

SeqsUpTo(S, n) == UNION {[1..k -> S] : k \in 0..n}

\* ---- normalize applied once and then to its own result ----
NormChunks ==
    {<<"a">>,
     <<" ">>,
     <<"\t">>,
     <<"\n">>,
     <<"h", "t", "t", "p", ":", "/", "/">>,
     <<"h", "t", "t", "p", "s", ":", "/", "/">>,
     <<"w", "w", "w", ".">>}

InitNormalize ==
    /\ PipelineIdle
    /\ upc = "in"
    /\ src_in \in SeqsUpTo(NormChunks, MaxNormLen)
    /\ text_in = Flatten(src_in)
    /\ flag_in = FALSE
    /\ text_out = <<>> /\ text_out2 = <<>> /\ recs_out = <<>> /\ exc = ""

NormalizeOnce ==
    /\ upc = "in"
    /\ text_out' = normalize(text_in)
    /\ upc' = "once"
    /\ UNCHANGED <<src_in, text_in, flag_in, text_out2, recs_out, exc, pvars>>

NormalizeAgain ==
    /\ upc = "once"
    /\ text_out2' = normalize(text_out)
    /\ upc' = "twice"
    /\ UNCHANGED <<src_in, text_in, flag_in, text_out, recs_out, exc, pvars>>

NextNormalize == NormalizeOnce \/ NormalizeAgain

SpecNormalize == InitNormalize /\ [][NextNormalize]_vars

\* ---- model_name ----
NameChunks ==
    {<<"m">>,
     <<"/">>,
     <<":", "o", "n">>,
     <<"l", "i", "n", "e">>,
     <<":", "o", "n", "l", "i", "n", "e">>}

InitModelName ==
    /\ PipelineIdle
    /\ upc = "in"
    /\ src_in \in SeqsUpTo(NameChunks, MaxNameChunks)
    /\ text_in = Flatten(src_in)
    /\ flag_in \in BOOLEAN
    /\ text_out = <<>> /\ text_out2 = <<>> /\ recs_out = <<>> /\ exc = ""

ApplyModelName ==
    /\ upc = "in"
    /\ text_out' = model_name(text_in, flag_in)
    /\ upc' = "out"
    /\ UNCHANGED <<src_in, text_in, flag_in, text_out2, recs_out, exc, pvars>>

NextModelName == ApplyModelName

SpecModelName == InitModelName /\ [][NextModelName]_vars

(***************************************************************************)
(* The run handler: app.py 331-404, one script run per click on the run    *)
(* button.  The handler blocks in each completion call, so it is cut into  *)
(* one action per call: the call, and the code up to the next call.  The   *)
(* button is enabled only with an API key (app.py 322), taken as given.    *)
(***************************************************************************)
StageNames == {"research", "generate", "refresh"}

Briefs ==
    {<<>>,
     <<" ", "\n">>,
     <<"c", "o">>}
ConstraintTexts ==
    {<<>>,
     <<" ">>,
     <<"e", "u">>}
BaseModels ==
    {<<"m">>,
     <<"m", ":", "o", "n", "l", "i", "n", "e">>}
\* texts the completion API may answer with
Responses ==
    {<<"a", "\n", " ", "\n", "\n", "b">>,
     <<"Q", "1", "\n", "Q", "u", "e", "s", "t", "i", "o", "n", ":", " ", "a", "?", "\n">>,
     <<"s", "e", "e", " ", "h", "t", "t", "p", ":", "/", "/", "u", " ", "x">>}
\* ways a stage can raise: openrouter_chat raises on a non-200 status
\* (app.py 122-123), requests.post raises (121), the body has no
\* choices[0].message.content (124), or the content is null and normalize
\* raises on it (355, 367, 381)
CallFailures == {"status", "transport", "malformed", "null_content"}

ValidationMessage == "Please add a company brief."

\* app.py 332 (the faulty variant forgets the strip)
BriefIsEmptyLoose(b) == b = <<>>
BriefIsEmpty(b) == strip(b) = <<>>

\* app.py 336-338
ConstraintsHeading ==
    <<"\n", "\n", "E", "x", "t", "r", "a", " ", "c", "o", "n", "s", "t", "r", "a", "i", "n", "t", "s", ":", "\n">>
FullBrief(b, c) ==
    strip(b) \o (IF strip(c) # <<>> THEN ConstraintsHeading \o strip(c) ELSE <<>>)

\* one completion call as issued: the stage, the model identifier, the texts
\* rendered into the prompt, and how the call ended
CallRecord(stage, inputs, result, text) ==
    [stage |-> stage,
     model |-> model_name(base_model, online[stage]),
     inputs |-> inputs,
     result |-> result,
     text |-> text]

Init == HarnessIdle /\ PipelineIdle

\* app.py 331-343: the script runs with the widgets' values
Click ==
    /\ pc \in {"idle", "done", "failed", "stopped"}
    /\ runs < MaxRuns
    /\ runs' = runs + 1
    /\ \E b \in Briefs, c \in ConstraintTexts, m \in BaseModels,
          o \in [StageNames -> BOOLEAN], r \in BOOLEAN :
         /\ brief' = b /\ constraints' = c /\ base_model' = m
         /\ online' = o /\ run_refresh' = r
         /\ IF BriefIsEmpty(b)
            THEN /\ errors' = <<ValidationMessage>>
                 /\ pc' = "stopped"
                 /\ full_brief' = Unset
            ELSE /\ errors' = <<>>
                 /\ pc' = "research"
                 /\ full_brief' = FullBrief(b, c)
    /\ research' = Unset /\ draft' = Unset /\ final_text' = Unset
    /\ research_box' = Unset /\ draft_box' = Unset /\ final_box' = Unset
    /\ calls' = <<>> /\ downloads' = <<>>
    /\ UNCHANGED uvars

\* app.py 403-404: the except block.  The faulty variants keep the run going after
\* the error, or wipe the placeholders filled before it.
OnExceptionContinue(kind) ==
    /\ errors' = Append(errors, kind)
    /\ pc' = pc
    /\ UNCHANGED <<research_box, draft_box, final_box, final_text, downloads>>
OnExceptionWipe(kind) ==
    /\ errors' = Append(errors, kind)
    /\ pc' = "failed"
    /\ research_box' = Unset /\ draft_box' = Unset
    /\ UNCHANGED <<final_box, final_text, downloads>>
OnException(kind) ==
    /\ errors' = Append(errors, kind)
    /\ pc' = "failed"
    /\ UNCHANGED <<research_box, draft_box, final_box, final_text, downloads>>

\* app.py 370: the final text when the refresh stage is not run (the faulty variant
\* normalizes it once more)
FinalRenormalized(d) == normalize(d)
FinalWithoutRefresh(d) == d

\* app.py 383-402: the final box and the two download buttons; the csv
\* button carries the rows parse_questions finds (questions_to_csv, 88-96)
Render(ft) ==
    /\ final_text' = ft
    /\ final_box' = ft
    /\ downloads' = <<[file |-> "txt", data |-> ft],
                      [file |-> "csv", data |-> parse_questions(ft)]>>
    /\ pc' = "done"

\* app.py 346-356
Research ==
    /\ pc = "research"
    /\ \/ \E resp \in Responses :
            /\ calls' = Append(calls, CallRecord("research", <<full_brief>>, "ok", resp))
            /\ research' = normalize(resp)
            /\ research_box' = normalize(resp)
            /\ pc' = "generate"
            /\ UNCHANGED <<errors, draft_box, final_box, final_text, downloads>>
       \/ \E kind \in CallFailures :
            /\ calls' = Append(calls, CallRecord("research", <<full_brief>>, kind, <<>>))
            /\ OnException(kind)
            /\ UNCHANGED research
    /\ UNCHANGED <<runs, brief, constraints, base_model, online, run_refresh,
                   full_brief, draft, uvars>>

\* app.py 358-371, and 383-402 when the refresh stage is not run
Generate ==
    /\ pc = "generate"
    /\ \/ \E resp \in Responses :
            /\ calls' = Append(calls,
                   CallRecord("generate", <<full_brief, research>>, "ok", resp))
            /\ draft' = normalize(resp)
            /\ draft_box' = normalize(resp)
            /\ IF run_refresh
               THEN /\ final_text' = normalize(resp)
                    /\ pc' = "refresh"
                    /\ UNCHANGED <<final_box, downloads>>
               ELSE Render(FinalWithoutRefresh(normalize(resp)))
            /\ UNCHANGED <<errors, research_box>>
       \/ \E kind \in CallFailures :
            /\ calls' = Append(calls,
                   CallRecord("generate", <<full_brief, research>>, kind, <<>>))
            /\ OnException(kind)
            /\ UNCHANGED draft
    /\ UNCHANGED <<runs, brief, constraints, base_model, online, run_refresh,
                   full_brief, research, uvars>>

\* app.py 371-402
Refresh ==
    /\ pc = "refresh"
    /\ \/ \E resp \in Responses :
            /\ calls' = Append(calls,
                   CallRecord("refresh", <<draft, full_brief>>, "ok", resp))
            /\ Render(normalize(resp))
            /\ UNCHANGED <<errors, research_box, draft_box>>
       \/ \E kind \in CallFailures :
            /\ calls' = Append(calls,
                   CallRecord("refresh", <<draft, full_brief>>, kind, <<>>))
            /\ OnException(kind)
    /\ UNCHANGED <<runs, brief, constraints, base_model, online, run_refresh,
                   full_brief, research, draft, uvars>>

Next == Click \/ Research \/ Generate \/ Refresh

Spec == Init /\ [][Next]_vars

(***************************************************************************)
(* parse_questions driven on bounded inputs.                               *)
(***************************************************************************)
\* app.py 65 is the one expression of parse_questions that can raise:
\* ln.strip().split()[0] raises IndexError when the stripped line is empty
LineRaises(ln) == QNumAt(ln) /\ strip(ln) = <<>>
ParseRaises(raw) ==
    \E i \in 1..Len(SplitBlocks(raw)) :
        /\ BlockRetained(SplitBlocks(raw)[i])
        /\ \E j \in 1..Len(splitlines(SplitBlocks(raw)[i])) :
               LineRaises(splitlines(SplitBlocks(raw)[i])[j])

ApplyParse ==
    /\ upc = "in"
    /\ IF ParseRaises(text_in)
       THEN recs_out' = <<>> /\ exc' = "IndexError"
       ELSE recs_out' = parse_questions(text_in) /\ exc' = ""
    /\ upc' = "out"
    /\ UNCHANGED <<src_in, text_in, flag_in, text_out, text_out2, pvars>>

NextParse == ApplyParse

\* ---- any text made of a few lines ----
LinePool ==
    {<<"Q", "1">>,
     <<"Q", "2", "a">>,
     <<"Q", "2", " ", "x">>,
     <<"Q", "u", "e", "s", "t", "i", "o", "n", ":", " ", "a">>,
     <<"Q", "u", "e", "s", "t", "i", "o", "n", ":">>,
     <<"q", "u", "e", "s", "t", "i", "o", "n", ":", " ", "b">>,
     <<"A", "x", "i", "s", ":", " ", "c">>,
     <<>>,
     <<" ", "Q", "1">>,
     <<"Q", "x">>}

InitParse ==
    /\ PipelineIdle
    /\ upc = "in"
    /\ src_in \in SeqsUpTo(LinePool, MaxLines)
    /\ text_in = joinlines(src_in)
    /\ flag_in = FALSE
    /\ text_out = <<>> /\ text_out2 = <<>> /\ recs_out = <<>> /\ exc = ""

SpecParse == InitParse /\ [][NextParse]_vars

\* ---- texts rendered from question blocks ----
\* a block is its Q<integer> token and its labeled lines, each a pair of the
\* label's place in PromptLabels and the value
BlockIds ==
    {<<"Q", "1">>,
     <<"Q", "2">>}
SparseFields ==
    {<<>>,
     <<<<1, <<"x">>>>>>,
     <<<<4, <<"a">>>>>>,
     <<<<1, <<"x">>>>, <<4, <<"a">>>>>>,
     <<<<4, <<>>>>>>,
     <<<<4, <<"b", " ", "c">>>>, <<1, <<"x">>>>>>,
     <<<<1, <<"y">>>>, <<4, <<"b", " ", "c">>>>>>}
FieldValues ==
    <<{<<"A">>, <<"Q", "1", " ", "b">>},
      {<<"T">>, <<"a", ":", " ", "b">>},
      {<<"1", "2", "m">>, <<"2", "4", "m">>},
      {<<"Q", "?">>, <<"I", "s", " ", "Q", "2", " ", "u", "p", "?">>},
      {<<"W">>, <<"x", " ", "y">>},
      {<<"D">>, <<"A", "x", "i", "s", ":", " ", "z">>},
      {<<"S">>, <<"s", ",", " ", "t">>}>>
Preambles ==
    {<<>>,
     <<"A", "X", "E", "S", " ", "S", "U", "M", "M", "A", "R", "Y", ":", "\n", "-", " ", "x", " ", "|", " ", "y", " ", "|", " ", "1", "2", "m", "\n", "\n", "Q", "U", "E", "S", "T", "I", "O", "N", "S", ":", "\n">>}
Separators ==
    {<<"\n">>,
     <<"\n", "\n">>}
Paddings ==
    {<<>>,
     <<" ", " ">>}

\* the labels of a block's lines in the order the generate prompt asks for
\* (p_generate, app.py 189-195)
PromptLabels ==
    <<<<"A", "x", "i", "s">>,
      <<"T", "i", "t", "l", "e">>,
      <<"H", "o", "r", "i", "z", "o", "n">>,
      <<"Q", "u", "e", "s", "t", "i", "o", "n">>,
      <<"W", "h", "y", " ", "i", "t", " ", "m", "a", "t", "t", "e", "r", "s">>,
      <<"D", "e", "c", "i", "s", "i", "o", "n", " ", "l", "i", "n", "k">>,
      <<"S", "i", "g", "n", "a", "l", " ", "h", "i", "n", "t", "s">>>>

RenderField(f, pad) == PromptLabels[f[1]] \o <<":", " ">> \o pad \o f[2] \o pad

RECURSIVE RenderFields(_, _)
RenderFields(fs, pad) ==
    IF fs = <<>> THEN <<>>
    ELSE <<"\n">> \o RenderField(Head(fs), pad) \o RenderFields(Tail(fs), pad)

RenderBlock(b, pad) == b.id \o RenderFields(b.fields, pad)

RECURSIVE RenderBlocks(_, _, _)
RenderBlocks(bs, sep, pad) ==
    IF bs = <<>> THEN <<>>
    ELSE RenderBlock(Head(bs), pad)
         \o (IF Len(bs) > 1 THEN sep ELSE <<"\n">>)
         \o RenderBlocks(Tail(bs), sep, pad)

RenderText(src) == src.pre \o RenderBlocks(src.blocks, src.sep, src.pad)

SparseBlocks == {[id |-> i, fields |-> f] : i \in BlockIds, f \in SparseFields}

InitBlocks ==
    /\ PipelineIdle
    /\ upc = "in"
    /\ \E bs \in SeqsUpTo(SparseBlocks, MaxBlocks), p \in Preambles, s \in Separators :
           src_in = [pre |-> p, sep |-> s, pad |-> <<>>, blocks |-> bs]
    /\ text_in = RenderText(src_in)
    /\ flag_in = FALSE
    /\ text_out = <<>> /\ text_out2 = <<>> /\ recs_out = <<>> /\ exc = ""

SpecBlocks == InitBlocks /\ [][NextParse]_vars

\* one block with the seven labeled lines in the order of the prompt
FullFieldSeqs ==
    {<<<<1, v1>>, <<2, v2>>, <<3, v3>>, <<4, v4>>, <<5, v5>>, <<6, v6>>, <<7, v7>>>> :
         v1 \in FieldValues[1], v2 \in FieldValues[2], v3 \in FieldValues[3],
         v4 \in FieldValues[4], v5 \in FieldValues[5], v6 \in FieldValues[6],
         v7 \in FieldValues[7]}

FullIds ==
    {<<"Q", "1">>,
     <<"Q", "1", "2">>}

InitRoundTrip ==
    /\ PipelineIdle
    /\ upc = "in"
    /\ \E i \in FullIds, f \in FullFieldSeqs, p \in Paddings :
           src_in = [pre |-> <<>>, sep |-> <<"\n">>, pad |-> p,
                     blocks |-> <<[id |-> i, fields |-> f]>>]
    /\ text_in = RenderText(src_in)
    /\ flag_in = FALSE
    /\ text_out = <<>> /\ text_out2 = <<>> /\ recs_out = <<>> /\ exc = ""

SpecRoundTrip == InitRoundTrip /\ [][NextParse]_vars

(***************************************************************************)
(* Properties of the run handler (checked under Spec).                     *)
(***************************************************************************)
StageOrder == <<"research", "generate", "refresh">>
RunEndedInError == pc \in {"failed", "stopped"}
SomeCallFailed == \E i \in 1..Len(calls) : calls[i].result # "ok"

\* C1: the calls of a run are research, generate, refresh in that order, each
\* at most once, each issued only after the one before it returned
\* successfully, refresh only when the caller opted in; once a call has failed
\* the run has ended with exactly one error, no later call, nothing in the
\* final box and no export.
C1_StagesInOrderOnceAndStopOnFailure ==
    /\ Len(calls) <= Len(StageOrder)
    /\ \A i \in 1..Len(calls) : calls[i].stage = StageOrder[i]
    /\ \A i \in 2..Len(calls) : calls[i - 1].result = "ok"
    /\ (\E i \in 1..Len(calls) : calls[i].stage = "refresh") => run_refresh
    /\ Len(errors) <= 1
    /\ SomeCallFailed =>
           /\ pc = "failed"
           /\ Len(errors) = 1
           /\ final_box = Unset
           /\ downloads = <<>>

\* a run whose generate call failed after research succeeded, refresh opted in
C1_Witness ==
    /\ pc = "failed" /\ run_refresh
    /\ Len(calls) = 2
    /\ calls[1].result = "ok" /\ calls[2].result = "status"

\* C2: with refresh declined and both calls successful, the run made exactly
\* two calls and the final text, the final box and the txt export are the
\* draft itself: the generate response normalized once.
C2_FinalIsDraftWhenRefreshDeclined ==
    (pc = "done" /\ ~run_refresh) =>
        /\ Len(calls) = 2
        /\ calls[1].stage = "research" /\ calls[2].stage = "generate"
        /\ draft = normalize(calls[2].text)
        /\ final_text = draft
        /\ final_box = draft
        /\ downloads[1].data = draft

\* refresh declined, on a draft that a second normalize pass would change
C2_Witness ==
    /\ pc = "done" /\ ~run_refresh
    /\ normalize(draft) # draft
    /\ final_text = draft

\* C3 as claimed: when a run has ended in an error, neither the research notes
\* nor the draft of that run have been shown.
C3_NothingShownOnError ==
    RunEndedInError => (research_box = Unset /\ draft_box = Unset)

\* C3 as the code has it: when a run has ended in an error, the final box and
\* the exports were never rendered, and the placeholders show exactly the
\* outputs of the stages that completed before the failing one: the research
\* notes once research succeeded, the draft once generate succeeded.
C3_OnlyCompletedStagesShownOnError ==
    RunEndedInError =>
        /\ final_box = Unset
        /\ downloads = <<>>
        /\ research_box =
               (IF Len(calls) >= 2 THEN normalize(calls[1].text) ELSE Unset)
        /\ draft_box =
               (IF Len(calls) >= 3 THEN normalize(calls[2].text) ELSE Unset)

\* the refresh call failed: research notes and draft are on screen
C3_Witness ==
    /\ pc = "failed"
    /\ Len(calls) = 3 /\ calls[3].result # "ok"
    /\ research_box # Unset /\ draft_box # Unset

\* C4: a run started with an empty or whitespace-only brief has ended with
\* the validation error and has issued no completion call, whatever the
\* constraints and the configuration.
C4_EmptyBriefMakesNoCall ==
    (pc # "idle" /\ \A i \in 1..Len(brief) : brief[i] \in Space) =>
        /\ pc = "stopped"
        /\ calls = <<>>
        /\ errors = <<ValidationMessage>>
        /\ research_box = Unset /\ draft_box = Unset /\ final_box = Unset
        /\ downloads = <<>>

\* a whitespace-only brief with constraints given and refresh opted in
C4_Witness ==
    /\ pc = "stopped"
    /\ brief # <<>> /\ strip(constraints) # <<>> /\ run_refresh
    /\ calls = <<>>

(***************************************************************************)
(* Properties of normalize (SpecNormalize) and model_name (SpecModelName). *)
(***************************************************************************)
\* C5: normalize is idempotent: normalizing the result of normalize gives the
\* same text again.
C5_NormalizeIdempotent ==
    upc = "twice" => text_out2 = text_out

\* the base name with one trailing :online removed, nothing else
StripOnlineSuffix(base) ==
    IF EndsWith(base, OnlineSuffix)
    THEN Take(base, Len(base) - Len(OnlineSuffix))
    ELSE base

\* C6: model_name(base, online) is the base name with an existing trailing
\* :online removed and nothing else, followed by :online exactly when the
\* flag is set; so the result ends with :online iff the flag is set.
C6_ModelNameStripsSuffixOnly ==
    upc = "out" =>
        /\ text_out = StripOnlineSuffix(text_in)
                          \o (IF flag_in THEN OnlineSuffix ELSE <<>>)
        /\ EndsWith(text_out, OnlineSuffix) <=> flag_in

(***************************************************************************)
(* Properties of parse_questions.                                          *)
(***************************************************************************)
QuestionLabel == <<"Q", "u", "e", "s", "t", "i", "o", "n", ":">>

\* the line is a Question: line with something after the colon
QuestionLineWithValue(ln) ==
    /\ StartsWith(strip(ln), QuestionLabel)
    /\ \E i \in Len(QuestionLabel) + 1 .. Len(strip(ln)) : strip(ln)[i] \notin Space

BlockHasQuestion(b) ==
    \E j \in 1..Len(splitlines(b)) : QuestionLineWithValue(splitlines(b)[j])

\* the line starts with Q and a digit
StartsWithQDigit(ln) == Len(ln) >= 2 /\ ln[1] = "Q" /\ ln[2] \in Digit

BlocksOf(raw) == SplitBlocks(raw)

\* C7 (SpecParse): every record parse_questions returns has a non-empty id
\* and a non-empty question; a block with no Question: line, or an empty
\* Question: value, gives no record, so there are at most as many records as
\* blocks that have an id line and a valued Question: line; nothing is raised.
C7_RecordsHaveIdAndQuestion ==
    upc = "out" =>
        /\ exc = ""
        /\ \A i \in 1..Len(recs_out) :
               recs_out[i].id # <<>> /\ recs_out[i].question # <<>>
        /\ Len(recs_out) <=
               Cardinality({k \in 1..Len(BlocksOf(text_in)) :
                                BlockHasQuestion(BlocksOf(text_in)[k])})
        /\ (\A j \in 1..Len(src_in) : ~QuestionLineWithValue(src_in[j]))
               => recs_out = <<>>

\* two blocks with an id, one of them without a valued Question: line: one
\* record comes out
C7_Witness ==
    /\ upc = "out"
    /\ Len(recs_out) = 1
    /\ Len(BlocksOf(text_in)) = 2
    /\ \A k \in 1..2 : StartsWithQDigit(BlocksOf(text_in)[k])
    /\ \E k \in 1..2 : ~BlockHasQuestion(BlocksOf(text_in)[k])

\* the record field each labeled line of the prompt's block belongs to
FieldKeys ==
    <<"axis", "title", "horizon", "question", "why_it_matters",
      "decision_link", "signals">>

\* what the labeled lines of a block say about field key: the value of the
\* last line with that label, empty when there is none
RECURSIVE FieldOf(_, _)
FieldOf(fs, key) ==
    IF fs = <<>> THEN <<>>
    ELSE IF FieldKeys[fs[Len(fs)][1]] = key THEN fs[Len(fs)][2]
    ELSE FieldOf(Take(fs, Len(fs) - 1), key)

RecordOf(b) ==
    [id |-> b.id,
     axis |-> FieldOf(b.fields, "axis"),
     title |-> FieldOf(b.fields, "title"),
     horizon |-> FieldOf(b.fields, "horizon"),
     question |-> FieldOf(b.fields, "question"),
     why_it_matters |-> FieldOf(b.fields, "why_it_matters"),
     decision_link |-> FieldOf(b.fields, "decision_link"),
     signals |-> FieldOf(b.fields, "signals")]

RECURSIVE RecordsOf(_)
RecordsOf(bs) ==
    IF bs = <<>> THEN <<>>
    ELSE (IF FieldOf(Head(bs).fields, "question") # <<>>
          THEN <<RecordOf(Head(bs))>> ELSE <<>>)
         \o RecordsOf(Tail(bs))

\* C8 (SpecBlocks): for a text rendered from a sequence of question blocks,
\* the records are those of the blocks that have a question, in the order of
\* the blocks, one per block even when two blocks carry the same id.
C8_RecordsFollowBlockOrder ==
    upc = "out" => recs_out = RecordsOf(src_in.blocks)

\* two blocks with the same id and different questions, both returned
C8_Witness ==
    /\ upc = "out"
    /\ Len(recs_out) = 2
    /\ recs_out[1].id = recs_out[2].id
    /\ recs_out[1].question # recs_out[2].question

\* C9 (SpecRoundTrip): a well-formed block, its Q<integer> line followed by
\* the seven labeled lines with non-empty values, parses to exactly one
\* record: the id is the Q<integer> token and the seven fields are the
\* trimmed values of their lines.
C9_WellFormedBlockRoundTrip ==
    upc = "out" =>
        /\ exc = ""
        /\ recs_out = <<RecordOf(src_in.blocks[1])>>

\* a padded block whose values hold a Q<integer> token, a colon and a label
C9_Witness ==
    /\ upc = "out"
    /\ src_in.pad # <<>>
    /\ Len(recs_out) = 1
    /\ recs_out[1].id = <<"Q", "1", "2">>
    /\ recs_out[1].axis = <<"Q", "1", " ", "b">>
    /\ recs_out[1].title = <<"a", ":", " ", "b">>
    /\ recs_out[1].decision_link = <<"A", "x", "i", "s", ":", " ", "z">>

\* the Q<integer> token at the start of a line: Q and the digits after it
QNumToken(ln) == Take(ln, 1 + RunLen(Tail(ln), Digit))

\* the first line of block b that starts with Q<integer>
FirstQNumLine(b) ==
    LET ls == splitlines(b)
        at == {j \in 1..Len(ls) : StartsWithQDigit(ls[j])}
    IN  ls[CHOOSE j \in at : \A k \in at : j <= k]

RECURSIVE ExpectedIds(_)
ExpectedIds(bs) ==
    IF bs = <<>> THEN <<>>
    ELSE (IF BlockRetained(Head(bs)) /\ ItemEmitted(ParseBlock(Head(bs)))
          THEN <<QNumToken(FirstQNumLine(Head(bs)))>> ELSE <<>>)
         \o ExpectedIds(Tail(bs))

\* C10 (SpecParse): the id of every record is the Q<integer> token, Q followed
\* by digits only, of the first line of its block that matches Q<integer>; a
\* later line of the block does not override it.
C10_IdIsFirstQNumToken ==
    upc = "out" =>
        [i \in 1..Len(recs_out) |-> recs_out[i].id] = ExpectedIds(BlocksOf(text_in))

====
